---- MODULE Spec2Model ----
(***************************************************************************)
(* Model of the two dashboards of the repository:                          *)
(*   src/VT.py          the teacher-feedback analyzer (main, process_course)*)
(*   src/VisualTool.py  the generic CSV visualization script               *)
(*                                                                         *)
(* A request is one run of a script from top to bottom (one user           *)
(* interaction).  What survives a request is the process: the pyplot       *)
(* figure registry (figures are created with plt.subplots and never        *)
(* closed) and the working directory.                                      *)
(*                                                                         *)
(* The listing of VT.py ends with a detached fragment (lines 922-1021)     *)
(* that holds the tail of get_distribution_params and get_average_params;  *)
(* main is modelled as it runs with these helpers defined.  Plotting       *)
(* parameters are taken at values for which the plotting helpers return.   *)
(*                                                                         *)
(* Three specifications: CalcSpec applies the pure helpers (aggregates,    *)
(* sort order, parameter collection) once to an input drawn at the start;  *)
(* Spec runs the requests of one session of either script; SessionSpec     *)
(* runs the requests of two sessions of VT.py in one process.              *)
(*                                                                         *)
(* Numbers that the code holds as floats are exact rationals <<n, d>>      *)
(* with d > 0 here, so "equal" below means equal before rounding error.    *)
(***************************************************************************)
EXTENDS Integers, Sequences, FiniteSets, TLC

\* ------------------------------------------------------------------ bounds
CalcRows == 2       \* rows of a course table given to the aggregates
MaxSeries == 3      \* length of a series given to calculate_cumulative_percentage
MaxLong == 3        \* rows of a long-form table given to plot_distribution
MaxRows == 2        \* rows of an uploaded CSV
MaxFigs == 6        \* figures the registry may hold before requests stop
MaxQuestions == 4   \* feedback columns of a course whose questions are listed

\* -------------------------------------------------------- program constants
METADATA_END_INDEX == 8
MaxScore == 5

\* ------------------------------------------------------------------- cells
\* A cell of a DataFrame: a number, a missing value (NaN) or a text.
Num(n) == [t |-> "num", v |-> n, s |-> ""]
NaN == [t |-> "nan", v |-> 0, s |-> ""]
Txt(str) == [t |-> "str", v |-> 0, s |-> str]

\* ---------------------------------------------------------------- rationals
RECURSIVE GCD(_, _)
GCD(a, b) == IF b = 0 THEN a ELSE GCD(b, a % b)

Abs(n) == IF n < 0 THEN -n ELSE n

Norm(q) ==
    LET g == GCD(Abs(q[1]), q[2])
    IN  <<q[1] \div g, q[2] \div g>>

RatEq(a, b) == a[1] * b[2] = b[1] * a[2]
RatLe(a, b) == a[1] * b[2] <= b[1] * a[2]
RatLt(a, b) == a[1] * b[2] < b[1] * a[2]
RatAdd(a, b) == Norm(<<a[1] * b[2] + b[1] * a[2], a[2] * b[2]>>)
RatSub(a, b) == Norm(<<a[1] * b[2] - b[1] * a[2], a[2] * b[2]>>)
RatMin(a, b) == IF RatLe(a, b) THEN a ELSE b
RatMax(a, b) == IF RatLe(a, b) THEN b ELSE a
RatInt(n) == <<n, 1>>

RECURSIVE SeqSum(_)
SeqSum(s) == IF s = <<>> THEN 0 ELSE Head(s) + SeqSum(Tail(s))

RECURSIVE RatSeqSum(_)
RatSeqSum(s) == IF s = <<>> THEN RatInt(0) ELSE RatAdd(Head(s), RatSeqSum(Tail(s)))

\* ------------------------------------------------- pandas Series helpers
IsValid(c) == c.t = "num"

\* Series.dropna(): the non-missing entries, in order.
dropna(series) == SelectSeq(series, IsValid)

\* Series.mean() of a series without missing entries.
mean(valid) == Norm(<<SeqSum([i \in 1..Len(valid) |-> valid[i].v]), Len(valid)>>)

\* pd.to_numeric(errors='coerce') on one cell.
to_numeric(c) == IF c.t = "num" THEN c ELSE NaN

\* ------------------------------------------ calculate_cumulative_percentage
calculate_cumulative_percentage_nodrop(series) ==
    LET score == IF Len(series) > 0
                 THEN Norm(<<SeqSum([i \in 1..Len(series) |-> series[i].v]), Len(series)>>)
                 ELSE RatInt(0)
    IN  Norm(<<score[1] * 100, score[2] * MaxScore>>)

calculate_cumulative_percentage(series) ==
    LET valid == dropna(series)
        score == IF Len(valid) > 0 THEN mean(valid) ELSE RatInt(0)
    IN  Norm(<<score[1] * 100, score[2] * MaxScore>>)

\* plot_cumulative_pie, first two lines: the values of the two wedges.
pie_score_swapped(percent) == RatMin(RatMax(percent, RatInt(100)), RatInt(0))

pie_score(percent) == RatMax(RatMin(percent, RatInt(100)), RatInt(0))

pie_remainder(percent) == RatSub(RatInt(100), pie_score(percent))

\* ------------------------------------------------------ question names
\* Column names of the feedback block, listed in lexicographic order (the
\* order in which groupby and pd.Categorical sort them).
AllQ == <<"Q1", "Q2", "Q3", "Q4">>
QRank(q) == CHOOSE i \in DOMAIN AllQ : AllQ[i] = q

\* ----------------------------------------------------- plot_distribution
\* Keys (Question, Response) in groupby order: by question, then by value.
KeyLess(a, b) ==
    \/ QRank(a[1]) < QRank(b[1])
    \/ a[1] = b[1] /\ a[2] < b[2]

RECURSIVE SortKeys(_)
SortKeys(S) ==
    IF S = {} THEN <<>>
    ELSE LET m == CHOOSE x \in S : \A y \in S \ {x} : KeyLess(x, y)
         IN  <<m>> \o SortKeys(S \ {m})

\* df_long.groupby(['Question','Response']).size().reset_index(name='Count')
group_sizes(df_long) ==
    LET keys == {<<df_long[i].Question, df_long[i].Response>> : i \in DOMAIN df_long}
        sorted == SortKeys(keys)
    IN  [k \in DOMAIN sorted |->
            [Question |-> sorted[k][1],
             Response |-> sorted[k][2],
             Count |-> Cardinality({i \in DOMAIN df_long :
                          /\ df_long[i].Question = sorted[k][1]
                          /\ df_long[i].Response = sorted[k][2]})]]

\* count_df.groupby('Question')['Count'].transform('sum')
total_per_question_all(counts) ==
    [k \in DOMAIN counts |-> SeqSum([j \in DOMAIN counts |-> counts[j].Count])]

total_per_question(counts) ==
    [k \in DOMAIN counts |->
        SeqSum([j \in DOMAIN counts |->
                   IF counts[j].Question = counts[k].Question
                   THEN counts[j].Count ELSE 0])]

\* count_df['Percentage'] = count_df['Count'] / total_per_question * 100
percentage_column_fraction(counts, totals) ==
    [k \in DOMAIN counts |-> Norm(<<counts[k].Count, totals[k]>>)]

percentage_column(counts, totals) ==
    [k \in DOMAIN counts |-> Norm(<<counts[k].Count * 100, totals[k]>>)]

\* The table count_df that plot_distribution draws.
count_df(df_long) ==
    LET counts == group_sizes(df_long)
        pcts == percentage_column(counts, total_per_question(counts))
    IN  [k \in DOMAIN counts |->
            [Question |-> counts[k].Question,
             Response |-> counts[k].Response,
             Count |-> counts[k].Count,
             Percentage |-> pcts[k]]]

\* questions = list(pd.Categorical(count_df['Question']).categories)
questions(cdf) ==
    SelectSeq(AllQ, LAMBDA q : \E k \in DOMAIN cdf : cdf[k].Question = q)

\* ------------------------------------- aggregates of process_course
\* df_course[current_cols].apply(pd.to_numeric, errors='coerce')
df_numeric(df_course, current_cols) ==
    [r \in DOMAIN df_course |->
        [c \in {current_cols[i] : i \in DOMAIN current_cols} |->
            to_numeric(df_course[r][c])]]

\* df_numeric.melt(var_name='Question', value_name='Response'): column by
\* column, the rows of each column in table order.
melt(dfn, current_cols) ==
    LET nr == Len(dfn)
        nc == Len(current_cols)
    IN  [k \in 1..(nr * nc) |->
            LET c == ((k - 1) \div nr) + 1
                r == ((k - 1) % nr) + 1
            IN  [Question |-> current_cols[c], Cell |-> dfn[r][current_cols[c]]]]

\* .dropna() of the melted table; the responses left are all numbers.
melt_keepna(dfn, current_cols) ==
    LET kept == melt(dfn, current_cols)
    IN  [k \in DOMAIN kept |-> [Question |-> kept[k].Question, Response |-> kept[k].Cell.v]]

melt_dropna(dfn, current_cols) ==
    LET kept == SelectSeq(melt(dfn, current_cols), LAMBDA row : IsValid(row.Cell))
    IN  [k \in DOMAIN kept |-> [Question |-> kept[k].Question, Response |-> kept[k].Cell.v]]

\* df_numeric.mean(): the mean of each column over its numbers; a column
\* without a number has mean NaN (nan = TRUE).
column_means(dfn, current_cols) ==
    [i \in DOMAIN current_cols |->
        LET valid == dropna([r \in DOMAIN dfn |-> dfn[r][current_cols[i]]])
        IN  [Question |-> current_cols[i],
             nan |-> valid = <<>>,
             mean |-> IF valid = <<>> THEN RatInt(0) ELSE mean(valid)]]

\* Series.sort_values(ascending=...): by value, NaN last, equal values in
\* their previous order.
ComesBefore(ms, i, j, ascending) ==
    IF ms[i].nan # ms[j].nan THEN ms[j].nan
    ELSE IF ms[i].nan \/ RatEq(ms[i].mean, ms[j].mean) THEN i < j
    ELSE IF ascending THEN RatLt(ms[i].mean, ms[j].mean)
    ELSE RatLt(ms[j].mean, ms[i].mean)

RECURSIVE SortPositions(_, _, _)
SortPositions(ms, S, ascending) ==
    IF S = {} THEN <<>>
    ELSE LET m == CHOOSE i \in S : \A j \in S \ {i} : ComesBefore(ms, i, j, ascending)
         IN  <<m>> \o SortPositions(ms, S \ {m}, ascending)

sort_values(ms, ascending) ==
    LET pos == SortPositions(ms, DOMAIN ms, ascending)
    IN  [k \in DOMAIN pos |-> ms[pos[k]]]

\* process_course: mean_scores = df_numeric.mean().sort_values()
mean_scores(dfn, current_cols) == sort_values(column_means(dfn, current_cols), TRUE)

\* plot_average_scores: the bars in the order in which they are drawn.
SortOrders == {"ascending", "descending", "original"}

plot_average_scores(scores, avg_sort_order) ==
    IF avg_sort_order = "ascending" THEN sort_values(scores, TRUE)
    ELSE IF avg_sort_order = "descending" THEN sort_values(scores, FALSE)
    ELSE scores

\* Series.head(n) and Series.tail(n)
head(series, n) ==
    SubSeq(series, 1, IF n < Len(series) THEN n ELSE Len(series))

tail(series, n) ==
    SubSeq(series, IF n < Len(series) THEN Len(series) - n + 1 ELSE 1, Len(series))

\* process_course, "Highest Rated Questions": mean_scores.tail(3)
top_questions(scores) == tail(scores, 3)

\* process_course, "Lowest Rated Questions": mean_scores.head(3)
bottom_questions(scores) == head(scores, 3)

\* process_course, Overall Performance tab: the interpretation of pct.
performance_message_strict(pct) ==
    IF RatLt(RatInt(90), pct) THEN "Excellent Performance!"
    ELSE IF RatLt(RatInt(80), pct) THEN "Good Performance"
    ELSE IF RatLt(RatInt(70), pct) THEN "Needs Improvement"
    ELSE "Requires Attention"

performance_message(pct) ==
    IF RatLe(RatInt(90), pct) THEN "Excellent Performance!"
    ELSE IF RatLe(RatInt(80), pct) THEN "Good Performance"
    ELSE IF RatLe(RatInt(70), pct) THEN "Needs Improvement"
    ELSE "Requires Attention"

\* delta=f"{pct-80:.1f}%" if pct >= 80 else None
overall_score_delta(pct) ==
    IF RatLe(RatInt(80), pct)
    THEN [shown |-> TRUE, value |-> RatSub(pct, RatInt(80))]
    ELSE [shown |-> FALSE, value |-> RatInt(0)]

\* overall_mean = df_numeric.mean().mean(): the mean of the column means
\* that are numbers; NaN (nan = TRUE) when no column has a number.
overall_mean(df_course, current_cols) ==
    LET ms == column_means(df_numeric(df_course, current_cols), current_cols)
        valid == SelectSeq(ms, LAMBDA m : ~m.nan)
        total == RatSeqSum([k \in DOMAIN valid |-> valid[k].mean])
    IN  [nan |-> valid = <<>>,
         mean |-> IF valid = <<>> THEN RatInt(0)
                  ELSE Norm(<<total[1], total[2] * Len(valid)>>)]

\* 'Excellent' if overall_mean >= 4.5 else 'Good' if overall_mean >= 4.0
\* else 'Satisfactory' if overall_mean >= 3.5 else 'Needs Improvement'.
\* Every comparison with NaN is false.
performance_level_strict(om) ==
    IF ~om.nan /\ RatLt(<<9, 2>>, om.mean) THEN "Excellent"
    ELSE IF ~om.nan /\ RatLt(<<4, 1>>, om.mean) THEN "Good"
    ELSE IF ~om.nan /\ RatLt(<<7, 2>>, om.mean) THEN "Satisfactory"
    ELSE "Needs Improvement"

performance_level(om) ==
    IF ~om.nan /\ RatLe(<<9, 2>>, om.mean) THEN "Excellent"
    ELSE IF ~om.nan /\ RatLe(<<4, 1>>, om.mean) THEN "Good"
    ELSE IF ~om.nan /\ RatLe(<<7, 2>>, om.mean) THEN "Satisfactory"
    ELSE "Needs Improvement"

\* df_numeric.values.flatten(): row by row.
flatten(dfn, current_cols) ==
    LET nr == Len(dfn)
        nc == Len(current_cols)
    IN  [k \in 1..(nr * nc) |->
            LET r == ((k - 1) \div nc) + 1
                c == ((k - 1) % nc) + 1
            IN  dfn[r][current_cols[c]]]

\* =================================================================== state
VARIABLES
    app,          \* which script this process runs: "VT" or "VisualTool"
    figs,         \* pyplot's figure registry: figure number k is figs[k]
    owner,        \* owner[k]: the session whose request created figure k
    dir_exists,   \* whether the directory OUTPUT_DIR exists
    req,          \* the inputs of the last request (widgets, uploaded file)
    out,          \* what the last request did and showed, in order
    calc          \* the last direct evaluation of an aggregate function

vars == <<app, figs, owner, dir_exists, req, out, calc>>

\* Python's None.
None == "<None>"

NoReq == [kind |-> "none"]
NoOut == [kind |-> "none"]

SeqsUpTo(S, n) == UNION {[1..k -> S] : k \in 0..n}
NonEmptySeqsUpTo(S, n) == UNION {[1..k -> S] : k \in 1..n}

\* ------------------------------------------------ inputs of the aggregates
SeriesCells == {NaN, Num(-1), Num(1), Num(2), Num(5), Num(6)}
SeriesSet == SeqsUpTo(SeriesCells, MaxSeries)

LongQuestions == {"Q1", "Q2"}
LongResponses == {1, 2, 5}
LongRows == [Question : LongQuestions, Response : LongResponses]
LongTables == NonEmptySeqsUpTo(LongRows, MaxLong)

CalcCells == {NaN, Txt("x"), Num(1), Num(4), Num(5)}
CalcAllColumns == <<"Q1", "Q2">>
CalcColumns(n) == SubSeq(CalcAllColumns, 1, n)
CalcTables(n) ==
    NonEmptySeqsUpTo([{CalcAllColumns[i] : i \in 1..n} -> CalcCells], CalcRows)

\* ===================================================== chart parameters
\* A key of st.session_state or ui_params, split at its first underscore:
\* "dist_fig_w" is <<"dist", "fig_w">>.  key.startswith(prefix) for the
\* prefixes 'dist_', 'avg_', 'pie_', 'global_', 'export_' is a test of the
\* first part.
Keys(prefix, names) == {<<prefix, n>> : n \in names}

ParamPrefixes == {"dist", "avg", "pie", "global", "export"}

\* The keys of the dictionary defaults.
DefaultKeys ==
    Keys("dist", {"alpha", "bg_color", "edge_color", "edge_width", "fig_h",
                  "fig_w", "grid_alpha", "grid_show", "grid_style",
                  "label_color", "label_font", "label_weight", "legend_alpha",
                  "legend_bg_color", "legend_fontsize", "legend_loc",
                  "legend_position", "legend_title", "legend_title_fontsize",
                  "palette", "plot_type", "show_legend", "show_values",
                  "spine_color", "spine_width", "tick_font", "tick_weight",
                  "title", "title_color", "title_font", "title_pad",
                  "title_weight", "value_format", "value_position",
                  "wrap_length", "x_align", "x_rotation", "xlabel", "y_max",
                  "ylabel"})
    \cup
    Keys("avg", {"alpha", "bg_color", "edge_color", "edge_width", "fig_h",
                 "fig_w", "grid_alpha", "grid_show", "grid_style",
                 "label_color", "label_font", "label_weight",
                 "legend_fontsize", "orientation", "palette",
                 "ref_line_color", "ref_line_style", "ref_line_value",
                 "ref_line_width", "show_ref_legend", "show_ref_line",
                 "show_values", "sort_order", "spine_color", "spine_width",
                 "tick_font", "tick_weight", "title", "title_color",
                 "title_font", "title_pad", "title_weight", "value_fontsize",
                 "value_format", "value_position", "wrap_length", "x_align",
                 "x_max", "x_min", "x_rotation", "xlabel", "y_max", "y_min",
                 "ylabel"})
    \cup
    Keys("pie", {"bg_color", "color_bg", "color_main", "donut_width",
                 "edge_color", "edge_width", "explode", "explode_enable",
                 "fig_h", "fig_w", "pct_color", "pct_font", "pct_weight",
                 "shadow_enable", "shadow_offset", "show_pct",
                 "show_subtitle", "start_angle", "style", "subtitle",
                 "subtitle_color", "subtitle_font", "title", "title_color",
                 "title_font", "title_pad", "title_weight"})

\* The keys that the plot functions read with params[...].
plot_distribution_reads ==
    Keys("dist", {"alpha", "edge_color", "edge_width", "fig_h", "fig_w",
                  "label_color", "label_font", "label_weight", "legend_alpha",
                  "legend_bg_color", "legend_fontsize", "legend_loc",
                  "legend_position", "legend_title", "legend_title_fontsize",
                  "palette", "plot_type", "show_legend", "show_values",
                  "tick_font", "tick_weight", "title", "title_color",
                  "title_font", "title_pad", "title_weight", "value_format",
                  "value_position", "wrap_length", "x_align", "x_rotation",
                  "xlabel", "y_max", "ylabel"})

plot_average_scores_reads ==
    Keys("avg", {"alpha", "edge_color", "edge_width", "fig_h", "fig_w",
                 "label_color", "label_font", "label_weight",
                 "legend_fontsize", "orientation", "palette",
                 "ref_line_color", "ref_line_style", "ref_line_value",
                 "ref_line_width", "show_ref_legend", "show_ref_line",
                 "show_values", "sort_order", "tick_font", "tick_weight",
                 "title", "title_color", "title_font", "title_pad",
                 "title_weight", "value_fontsize", "value_format",
                 "value_position", "wrap_length", "x_align", "x_max", "x_min",
                 "x_rotation", "xlabel", "y_max", "y_min", "ylabel"})

plot_cumulative_pie_reads ==
    Keys("pie", {"bg_color", "color_bg", "color_main", "donut_width",
                 "edge_color", "edge_width", "explode", "explode_enable",
                 "fig_h", "fig_w", "pct_color", "pct_font", "pct_weight",
                 "show_pct", "show_subtitle", "start_angle", "style",
                 "subtitle", "subtitle_color", "subtitle_font", "title",
                 "title_color", "title_font", "title_pad", "title_weight"})

\* apply_custom_style(ax, params, chart_type): read with params.get, and
\* bg_color with params[...] once params.get found it.
apply_custom_style_reads(chart_type) ==
    Keys(chart_type, {"grid_show", "grid_alpha", "grid_style", "bg_color",
                      "spine_width", "spine_color"})

ReadKeys ==
    plot_distribution_reads \cup plot_average_scores_reads \cup plot_cumulative_pie_reads
    \cup apply_custom_style_reads("dist") \cup apply_custom_style_reads("avg")

\* The values of the widgets that decide which other widgets are rendered,
\* and whether an earlier run left 'pie_explode' in the session state.
WidgetChoices ==
    {w \in [dist_show_values : BOOLEAN, dist_show_legend : BOOLEAN,
            avg_grid_show : BOOLEAN, avg_horizontal : BOOLEAN,
            avg_show_values : BOOLEAN, avg_show_ref_line : BOOLEAN,
            avg_show_ref_legend : BOOLEAN, pie_with_width : BOOLEAN,
            pie_show_pct : BOOLEAN, pie_show_subtitle : BOOLEAN,
            pie_explode_enable : BOOLEAN, pie_shadow_enable : BOOLEAN,
            pie_explode_kept : BOOLEAN] :
        /\ w.avg_show_ref_legend => w.avg_show_ref_line
        /\ w.pie_show_subtitle => w.pie_show_pct}

\* get_distribution_params: the keys of the widgets it renders.
get_distribution_params(w) ==
    Keys("dist", {"plot_type", "palette", "alpha", "edge_color", "edge_width",
                  "fig_w", "fig_h", "y_max", "title", "xlabel", "ylabel",
                  "title_font", "label_font", "tick_font", "title_weight",
                  "label_weight", "tick_weight", "x_rotation", "x_align",
                  "wrap_length", "title_color", "label_color", "bg_color",
                  "show_values", "show_legend"})
    \cup (IF w.dist_show_values
          THEN Keys("dist", {"value_format", "value_position"}) ELSE {})
    \cup (IF w.dist_show_legend
          THEN Keys("dist", {"legend_title", "legend_position", "legend_loc"}) ELSE {})
    \* the expander "Advanced Settings" of this function uses avg_ keys
    \cup Keys("avg", {"title_pad", "grid_show", "spine_width", "spine_color"})
    \cup (IF w.avg_grid_show THEN Keys("avg", {"grid_alpha", "grid_style"}) ELSE {})

\* get_average_params
get_average_params(w) ==
    Keys("avg", {"orientation", "palette", "sort_order", "alpha", "edge_color",
                 "edge_width", "fig_w", "fig_h", "title", "xlabel", "ylabel",
                 "title_font", "label_font", "tick_font", "title_weight",
                 "label_weight", "tick_weight", "wrap_length", "title_color",
                 "label_color", "bg_color", "show_values", "show_ref_line"})
    \cup (IF w.avg_horizontal
          THEN Keys("avg", {"x_min", "x_max"})
          ELSE Keys("avg", {"y_min", "y_max", "x_rotation", "x_align"}))
    \cup (IF w.avg_show_values
          THEN Keys("avg", {"value_format", "value_position", "value_fontsize"}) ELSE {})
    \cup (IF w.avg_show_ref_line
          THEN Keys("avg", {"ref_line_value", "ref_line_color", "ref_line_style",
                            "ref_line_width", "show_ref_legend"}) ELSE {})
    \cup (IF w.avg_show_ref_line /\ w.avg_show_ref_legend
          THEN Keys("avg", {"legend_fontsize"}) ELSE {})

\* get_pie_params; it also stores 'pie_explode' in the session state when
\* the explode effect is enabled, and a value stored by an earlier run stays.
get_pie_params(w) ==
    Keys("pie", {"style", "color_main", "color_bg", "edge_color", "edge_width",
                 "fig_w", "fig_h", "start_angle", "title", "title_font",
                 "title_weight", "title_color", "title_pad", "show_pct",
                 "explode_enable", "bg_color", "shadow_enable"})
    \cup (IF w.pie_with_width THEN Keys("pie", {"donut_width"}) ELSE {})
    \cup (IF w.pie_show_pct
          THEN Keys("pie", {"pct_font", "pct_weight", "pct_color", "show_subtitle"}) ELSE {})
    \cup (IF w.pie_show_pct /\ w.pie_show_subtitle
          THEN Keys("pie", {"subtitle", "subtitle_font", "subtitle_color"}) ELSE {})
    \cup (IF w.pie_explode_enable
          THEN Keys("pie", {"explode_main", "explode_bg", "explode"}) ELSE {})
    \cup (IF w.pie_explode_kept THEN Keys("pie", {"explode"}) ELSE {})
    \cup (IF w.pie_shadow_enable THEN Keys("pie", {"shadow_offset"}) ELSE {})

\* get_global_params
get_global_params ==
    Keys("global", {"theme"})
    \cup Keys("export", {"dpi", "format", "transparent"})
    \cup {<<"filter", "incomplete">>, <<"min", "responses">>,
          <<"show", "outliers">>, <<"show", "confidence_interval">>}

\* st.session_state after the four functions ran: every key holds the value
\* the session gave it.
session_state(w) ==
    [k \in get_distribution_params(w) \cup get_average_params(w)
           \cup get_pie_params(w) \cup get_global_params |->
        [from |-> "session", key |-> k]]

defaults == [k \in DefaultKeys |-> [from |-> "default", key |-> k]]

\* for key in st.session_state: if any(key.startswith(prefix) ...):
\*     ui_params[key] = st.session_state[key]
collect_prefixed(state) ==
    [k \in {x \in DOMAIN state : x[1] \in ParamPrefixes} |-> state[k]]

\* for key, default_value in defaults.items():
\*     if key not in ui_params: ui_params[key] = default_value
set_defaults_skipped(ui, dflt) == ui

set_defaults(ui, dflt) ==
    [k \in DOMAIN ui \cup DOMAIN dflt |-> IF k \in DOMAIN ui THEN ui[k] ELSE dflt[k]]

\* ui_params as main() hands it to process_course.
ui_params(w) == set_defaults(collect_prefixed(session_state(w)), defaults)

\* ------------------------------------------- direct calls of the aggregates
\* A call is drawn at the start and applied once.
CumulativeInputs == {[op |-> "call", fn |-> "cumulative", series |-> s] : s \in SeriesSet}
DistributionInputs == {[op |-> "call", fn |-> "distribution", df_long |-> t] : t \in LongTables}
AggregateInputs ==
    UNION {{[op |-> "call", fn |-> "aggregate", df_course |-> t, current_cols |-> CalcColumns(n),
             avg_sort_order |-> o] :
               t \in CalcTables(n), o \in SortOrders} : n \in 1..Len(CalcAllColumns)}

ParamInputs == {[op |-> "call", fn |-> "params", widgets |-> w] : w \in WidgetChoices}

\* Courses of one row with up to MaxQuestions feedback columns: the mean of
\* a column is its cell, or NaN when the cell is not a number.
QuestionNames == <<"Q1", "Q2", "Q3", "Q4", "Q5", "Q6">>
QuestionCells == {NaN, Num(1), Num(4), Num(5)}
QuestionTables(n) == {<<row>> : row \in [{QuestionNames[i] : i \in 1..n} -> QuestionCells]}
TopBottomInputs ==
    UNION {{[op |-> "call", fn |-> "top_bottom", df_course |-> t,
             current_cols |-> SubSeq(QuestionNames, 1, n)] :
               t \in QuestionTables(n)} : n \in 1..MaxQuestions}

CalcInit ==
    /\ app = "none"
    /\ figs = <<>>
    /\ owner = <<>>
    /\ dir_exists = FALSE
    /\ req = NoReq
    /\ out = NoOut
    /\ calc \in CumulativeInputs \cup DistributionInputs \cup AggregateInputs
                \cup ParamInputs \cup TopBottomInputs

\* calculate_cumulative_percentage(series), then the wedge values that
\* plot_cumulative_pie derives from its result.
CumulativeCall ==
    /\ calc.op = "call"
    /\ calc.fn = "cumulative"
    /\ LET pct == calculate_cumulative_percentage(calc.series)
       IN  calc' = [op |-> "cumulative",
                    series |-> calc.series,
                    pct |-> pct,
                    score |-> pie_score(pct),
                    remainder |-> pie_remainder(pct)]
    /\ UNCHANGED <<app, figs, owner, dir_exists, req, out>>

\* The table that plot_distribution computes from a long-form table.
DistributionCall ==
    /\ calc.op = "call"
    /\ calc.fn = "distribution"
    /\ calc' = [op |-> "distribution",
                df_long |-> calc.df_long,
                count_df |-> count_df(calc.df_long)]
    /\ UNCHANGED <<app, figs, owner, dir_exists, req, out>>

\* The aggregates that process_course computes for the rows of one course,
\* and the overall mean and performance level that the All Courses report
\* computes for the same rows.
AggregateCall ==
    /\ calc.op = "call"
    /\ calc.fn = "aggregate"
    /\ LET cols == calc.current_cols
           dfn == df_numeric(calc.df_course, cols)
           df_long == melt_dropna(dfn, cols)
           flat == flatten(dfn, cols)
           pct == calculate_cumulative_percentage(flat)
           om == overall_mean(calc.df_course, cols)
       IN  calc' = [op |-> "aggregate",
                    df_course |-> calc.df_course,
                    current_cols |-> cols,
                    avg_sort_order |-> calc.avg_sort_order,
                    \* the charts are drawn only if not df_long.empty
                    bars |-> IF df_long # <<>>
                             THEN plot_average_scores(mean_scores(dfn, cols),
                                                      calc.avg_sort_order)
                             ELSE <<>>,
                    df_numeric |-> dfn,
                    df_long |-> df_long,
                    count_df |-> count_df(df_long),
                    series |-> flat,
                    pct |-> pct,
                    score |-> pie_score(pct),
                    remainder |-> pie_remainder(pct),
                    \* the tabs are shown only if not df_long.empty
                    message |-> IF df_long # <<>> THEN performance_message(pct) ELSE None,
                    delta |-> IF df_long # <<>> THEN overall_score_delta(pct)
                              ELSE [shown |-> FALSE, value |-> RatInt(0)],
                    overall_mean |-> om,
                    performance_level |-> performance_level(om)]
    /\ UNCHANGED <<app, figs, owner, dir_exists, req, out>>

\* The lists of the "Top & Bottom Questions" expander of process_course.
TopBottomCall ==
    /\ calc.op = "call"
    /\ calc.fn = "top_bottom"
    /\ LET cols == calc.current_cols
           dfn == df_numeric(calc.df_course, cols)
           df_long == melt_dropna(dfn, cols)
           scores == mean_scores(dfn, cols)
       IN  calc' = [op |-> "top_bottom",
                    df_course |-> calc.df_course,
                    current_cols |-> cols,
                    \* the tabs are shown only if not df_long.empty
                    shown |-> df_long # <<>>,
                    mean_scores |-> scores,
                    top_questions |-> IF df_long # <<>> THEN top_questions(scores)
                                      ELSE <<>>,
                    bottom_questions |-> IF df_long # <<>> THEN bottom_questions(scores)
                                         ELSE <<>>]
    /\ UNCHANGED <<app, figs, owner, dir_exists, req, out>>

\* The parameter collection of main(): the four get_*_params functions, the
\* copy of the prefixed session keys and the defaults.
CollectParamsCall ==
    /\ calc.op = "call"
    /\ calc.fn = "params"
    /\ calc' = [op |-> "params",
                widgets |-> calc.widgets,
                session_state |-> session_state(calc.widgets),
                ui_params |-> ui_params(calc.widgets)]
    /\ UNCHANGED <<app, figs, owner, dir_exists, req, out>>

CalcNext ==
    \/ CumulativeCall
    \/ DistributionCall
    \/ AggregateCall
    \/ CollectParamsCall
    \/ TopBottomCall

CalcSpec == CalcInit /\ [][CalcNext]_vars

\* ============================================== uploaded files (both apps)
MetaColumns == <<"M1", "M2", "M3", "M4", "M5", "M6", "M7", "M8">>

\* Column layouts of the uploaded CSV files.
Layouts ==
    { <<"COURSE">> \o MetaColumns \o <<"Q1">>,      \* the expected format
      <<"ID">> \o MetaColumns \o <<"Q1">>,          \* no COURSE column
      <<"COURSE">> \o MetaColumns,                  \* no feedback block
      <<"COURSE">> \o MetaColumns \o <<"Q2", "Q1">> } \* two questions

RawCourses == {"A", "B/ "}
ReqCells == {NaN, Txt("x"), Num(4)}

\* The cells of a question column: Q2, where present, is always answered.
CellsOf(c) == IF c = "Q2" THEN {Num(5)} ELSE ReqCells

IsMetaColumn(c) == \E i \in DOMAIN MetaColumns : MetaColumns[i] = c
IsKeyColumn(c) == c \in {"COURSE", "ID"}

ColumnSet(columns) == {columns[i] : i \in DOMAIN columns}

\* The rows a file of the given layout may hold: a course name in the
\* first column, a text in every metadata column, any cell elsewhere.
RowsOfLayout(columns) ==
    LET answers == {c \in ColumnSet(columns) : ~IsMetaColumn(c) /\ ~IsKeyColumn(c)}
    IN  {[c \in ColumnSet(columns) |->
             IF IsKeyColumn(c) THEN Txt(n)
             ELSE IF IsMetaColumn(c) THEN Txt("m")
             ELSE q[c]] :
            n \in RawCourses, q \in {f \in [answers -> ReqCells \cup {Num(5)}] :
                                          \A c \in answers : f[c] \in CellsOf(c)}}

NoFile == [kind |-> "none"]
BadFile == [kind |-> "bad"]
CsvFiles ==
    UNION {{[kind |-> "csv", columns |-> cols, rows |-> rows] :
               rows \in SeqsUpTo(RowsOfLayout(cols), MaxRows)} : cols \in Layouts}
Files == {NoFile, BadFile} \cup CsvFiles

\* ------------------------------------------------------------ strings
\* str.strip() on the course names that occur.
str_strip(str) == IF str = "B/ " THEN "B/" ELSE str

\* sanitize_filename: re.sub(r'[\\/:"*?<>|]+', '_', name).strip()
sanitize_filename(name) == IF name \in {"B/", "B/ "} THEN "B_" ELSE name

\* sorted() on the course names that occur.
CourseOrder == <<"A", "B/">>
sorted_courses(S) == SelectSeq(CourseOrder, LAMBDA c : c \in S)

LastN(seq, n) ==
    IF Len(seq) <= n THEN seq ELSE SubSeq(seq, Len(seq) - n + 1, Len(seq))

\* ======================================================== VT.py: one course
\* response_rate = (df_numeric.count().sum()
\*                  / (len(df_course) * len(current_cols))) * 100
\* A zero denominator makes the float division yield nan or inf.
response_rate_per_row(df_course, current_cols) ==
    LET count == Len(dropna(flatten(df_numeric(df_course, current_cols), current_cols)))
        den == Len(df_course)
    IN  [count |-> count, den |-> den,
         value |-> IF den = 0 THEN RatInt(0) ELSE Norm(<<count * 100, den>>)]

response_rate(df_course, current_cols) ==
    LET count == Len(dropna(flatten(df_numeric(df_course, current_cols), current_cols)))
        den == Len(df_course) * Len(current_cols)
    IN  [count |-> count, den |-> den,
         value |-> IF den = 0 THEN RatInt(0) ELSE Norm(<<count * 100, den>>)]

\* df[df['COURSE'] == course]
rows_of_course(rows, course) == SelectSeq(rows, LAMBDA r : r["COURSE"].s = course)

Fig(kind, course) == [kind |-> kind, course |-> course]

\* if not df_long.empty
has_valid_responses_always(df_long) == TRUE

has_valid_responses(df_long) == df_long # <<>>

\* process_course: the messages and widgets it shows, in order, and the
\* figures it creates.
process_course(df_rows, course, feedback_cols) ==
    LET df_course == SelectSeq(df_rows, LAMBDA r : r["COURSE"].s = course)
        current_cols == feedback_cols
        dfn == df_numeric(df_course, current_cols)
        df_long == melt_dropna(dfn, current_cols)
    IN  IF df_course = <<>>
        THEN [steps |-> <<"subheader", "warn:no_data">>, charts |-> <<>>, rates |-> <<>>]
        ELSE IF current_cols = <<>>
        THEN [steps |-> <<"subheader", "warn:no_feedback_cols">>, charts |-> <<>>,
              rates |-> <<>>]
        ELSE IF has_valid_responses(df_long)
        THEN [steps |-> <<"subheader", "aggregate:metrics",
                          "draw:distribution", "aggregate:dist_summary",
                          "draw:average_scores", "aggregate:top_bottom",
                          "aggregate:overall_score",
                          "draw:overall_performance">>,
              charts |-> <<Fig("distribution", course),
                           Fig("average_scores", course),
                           Fig("overall_performance", course)>>,
              rates |-> <<response_rate(df_course, current_cols)>>]
        ELSE [steps |-> <<"subheader", "aggregate:metrics", "warn:no_valid">>,
              charts |-> <<>>,
              rates |-> <<response_rate(df_course, current_cols)>>]

\* ============================================================ VT.py: main
Modes == {"Single Course", "Compare Courses", "All Courses"}
ExportFormats == {"PNG", "PDF", "SVG", "JPEG"}

\* pd.read_csv inside try/except Exception: the steps taken when it raises.
load_failure_uncaught == <<"exception">>

load_failure == <<"error:load", "stop">>

\* if 'COURSE' not in df.columns
course_column_missing_unchecked(columns) == FALSE

course_column_missing(columns) == "COURSE" \notin ColumnSet(columns)

\* df.columns[METADATA_END_INDEX + 1:].tolist()  (positions are 0-based)
feedback_columns_from_end_index(columns) ==
    IF Len(columns) > METADATA_END_INDEX
    THEN SubSeq(columns, METADATA_END_INDEX + 1, Len(columns))
    ELSE <<>>

feedback_columns(columns) ==
    IF Len(columns) > METADATA_END_INDEX + 1
    THEN SubSeq(columns, METADATA_END_INDEX + 2, Len(columns))
    ELSE <<>>

\* df['COURSE'].astype(str).str.strip()
strip_courses(rows) ==
    [i \in DOMAIN rows |-> [rows[i] EXCEPT !["COURSE"] = Txt(str_strip(rows[i]["COURSE"].s))]]

\* sorted(df['COURSE'].unique())
course_list(rows) == sorted_courses({rows[i]["COURSE"].s : i \in DOMAIN rows})

\* A course whose feedback cells hold no number has overall mean NaN.
mean_is_nan(rows, course, feedback_cols) ==
    melt_dropna(df_numeric(SelectSeq(rows, LAMBDA r : r["COURSE"].s = course),
                           feedback_cols), feedback_cols) = <<>>

\* The figure numbers that the Single Course branch puts into the archive.
\* Both snapshots of the registry are taken after process_course returned.
new_figs(fignums_before_call, fignums_after_call) ==
    LET before_figs == fignums_after_call
        after_figs == fignums_after_call
        diff == after_figs \ before_figs
        all_figs == [k \in 1..Cardinality(fignums_after_call) |-> k]
    IN  IF diff # {}
        THEN SelectSeq(all_figs, LAMBDA k : k \in diff)
        ELSE IF Len(all_figs) >= 3 THEN LastN(all_figs, 3) ELSE all_figs

chart_names == <<"distribution", "average_scores", "overall_performance">>

\* ui_params.get('export_format', 'PNG').lower(), 'jpeg' becoming 'jpg'
export_extension(fmt) ==
    CASE fmt = "PNG" -> "png"
      [] fmt = "PDF" -> "pdf"
      [] fmt = "SVG" -> "svg"
      [] fmt = "JPEG" -> "jpg"

\* create_output_dir: whether Teacher_Output exists after the call.
\* if not os.path.exists(OUTPUT_DIR): os.makedirs(OUTPUT_DIR)
create_output_dir_inverted(dir) == dir

create_output_dir(dir) == IF ~dir THEN TRUE ELSE dir

\* The Single Course branch after the button was pressed.
single_course(rows, feedback_cols, selected_course, export_format, registry) ==
    LET pc == process_course(rows, selected_course, feedback_cols)
        figs1 == registry \o pc.charts
        nf == LastN(new_figs(DOMAIN registry, DOMAIN figs1), 3)
        entries == [i \in DOMAIN nf |->
                       [name |-> <<sanitize_filename(selected_course),
                                   IF i <= Len(chart_names) THEN chart_names[i] ELSE "chart",
                                   export_extension(export_format)>>,
                        fig |-> nf[i]]]
    IN  IF nf = <<>>
        THEN [steps |-> pc.steps, figs |-> figs1, archive |-> <<>>, offered |-> FALSE,
              rates |-> pc.rates]
        ELSE IF selected_course = None
        \* sanitize_filename(None) raises inside the loop that fills the archive
        THEN [steps |-> pc.steps \o <<"exception">>, figs |-> figs1,
              archive |-> <<>>, offered |-> FALSE, rates |-> pc.rates]
        ELSE [steps |-> pc.steps \o <<"bundle", "download_button">>, figs |-> figs1,
              archive |-> entries, offered |-> TRUE, rates |-> pc.rates]

\* The Compare Courses branch after the button was pressed.
compare_courses(rows, feedback_cols, selected_courses, registry) ==
    [steps |-> <<"aggregate:comparison", "draw:comparison_bar", "draw:comparison_scatter">>,
     figs |-> registry \o <<Fig("comparison_bar", None), Fig("comparison_scatter", None)>>,
     archive |-> <<>>, offered |-> FALSE,
     rates |-> [i \in DOMAIN selected_courses |->
                   response_rate(rows_of_course(rows, selected_courses[i]), feedback_cols)]]

\* all_course_data: one row per course (current_cols is feedback_cols, which
\* main found non-empty).
summary_df(rows, courses, feedback_cols) ==
    [i \in DOMAIN courses |->
        LET df_course == rows_of_course(rows, courses[i])
            om == overall_mean(df_course, feedback_cols)
        IN  [Course |-> courses[i],
             nan |-> om.nan,
             mean |-> om.mean,
             ResponseCount |-> Len(df_course),
             ResponseRate |-> response_rate(df_course, feedback_cols),
             PerformanceLevel |-> performance_level(om)]]

\* summary_df.sort_values('Overall Mean', ascending=False)
\*           .reset_index(drop=True), index += 1: the row at position k has
\* rank k.
ranked_df_ascending(summary) == sort_values(summary, TRUE)

ranked_df(summary) == sort_values(summary, FALSE)

\* The All Courses branch after the button was pressed, from the summary
\* table on.  hist_raises: the histogram of the course means raises when no
\* mean is a number.
institutional_report(summary, hist_raises, registry) ==
    LET figs1 == Append(registry, Fig("institutional_overview", None))
        rates == [i \in DOMAIN summary |-> summary[i].ResponseRate]
    IN  IF summary = <<>>
        \* summary_df has no columns: summary_df['Overall Mean'] raises
        THEN [steps |-> <<"aggregate:summary", "exception">>, figs |-> registry,
              archive |-> <<>>, offered |-> FALSE, rates |-> rates,
              summary |-> summary, ranked |-> <<>>]
        ELSE IF hist_raises
        THEN [steps |-> <<"aggregate:summary", "aggregate:overview_metrics", "exception">>,
              figs |-> figs1, archive |-> <<>>, offered |-> FALSE, rates |-> rates,
              summary |-> summary, ranked |-> <<>>]
        ELSE [steps |-> <<"aggregate:summary", "aggregate:overview_metrics",
                          "draw:institutional_overview", "aggregate:ranking",
                          "bundle", "download_button">>,
              figs |-> figs1,
              archive |-> <<[name |-> <<"institutional_summary", "", "csv">>, fig |-> 0],
                            [name |-> <<"institutional_overview", "", "png">>,
                             fig |-> Len(figs1)]>>,
              offered |-> TRUE, rates |-> rates,
              summary |-> summary, ranked |-> ranked_df(summary)]

all_courses(rows, feedback_cols, courses, hist_raises, registry) ==
    institutional_report(summary_df(rows, courses, feedback_cols), hist_raises, registry)

\* The inputs of one request of VT.py.  Widgets that the run never reaches
\* keep the values below.
VTBase(file) ==
    [kind |-> "VT", file |-> file, analysis_mode |-> None,
     selected_course |-> None, selected_courses |-> <<>>, button |-> FALSE,
     export_format |-> "PNG", hist_raises |-> FALSE]

WidgetsShown(file) ==
    /\ file.kind = "csv"
    /\ "COURSE" \in ColumnSet(file.columns)
    /\ feedback_columns(file.columns) # <<>>

VTWidgetValues(file) ==
    IF ~WidgetsShown(file) THEN {VTBase(file)}
    ELSE
        LET rows == strip_courses(file.rows)
            courses == course_list(rows)
            fcols == feedback_columns(file.columns)
            courseSet == {courses[i] : i \in DOMAIN courses}
            allNaN == \A c \in courseSet : mean_is_nan(rows, c, fcols)
        IN  {[VTBase(file) EXCEPT !.analysis_mode = "Single Course",
                                  !.selected_course = c, !.button = TRUE,
                                  !.export_format = f] :
                c \in (IF courses = <<>> THEN {None} ELSE courseSet),
                f \in ExportFormats}
            \cup
            {[VTBase(file) EXCEPT !.analysis_mode = "Single Course",
                                  !.selected_course = c] :
                c \in (IF courses = <<>> THEN {None} ELSE courseSet)}
            \cup
            UNION {{[VTBase(file) EXCEPT !.analysis_mode = "Compare Courses",
                                         !.selected_courses = sorted_courses(sel),
                                         !.button = b] :
                       b \in (IF Cardinality(sel) >= 2 THEN BOOLEAN ELSE {FALSE})} :
                   sel \in SUBSET courseSet}
            \cup
            {[VTBase(file) EXCEPT !.analysis_mode = "All Courses",
                                  !.button = b, !.hist_raises = h] :
                b \in BOOLEAN,
                h \in (IF courses # <<>> /\ allNaN THEN BOOLEAN ELSE {FALSE})}

\* main() of VT.py for one request: what it shows, in order, and what it
\* leaves behind in the process.
\* What one run of main() leaves behind: the steps before the mode branch,
\* then those of the branch.  Only the All Courses report has a summary.
main_result(pre, branch, dir_after, fcols, has_summary) ==
    [steps |-> pre \o branch.steps, figs |-> branch.figs,
     dir_exists |-> dir_after, archive |-> branch.archive,
     offered |-> branch.offered, feedback_cols |-> fcols,
     rates |-> branch.rates,
     summary |-> IF has_summary THEN branch.summary ELSE <<>>,
     ranked |-> IF has_summary THEN branch.ranked ELSE <<>>]

VT_main(r, registry, dir) ==
    LET file == r.file
        halted(steps) == [steps |-> steps, figs |-> registry, dir_exists |-> dir,
                          archive |-> <<>>, offered |-> FALSE, rates |-> <<>>,
                          summary |-> <<>>, ranked |-> <<>>,
                          feedback_cols |-> IF "feedback_cols" \in {steps[i] : i \in DOMAIN steps}
                                            THEN feedback_columns(file.columns) ELSE <<>>]
    IN  IF file.kind = "none" THEN halted(<<"info:upload">>)
        ELSE IF file.kind = "bad" THEN halted(load_failure)
        ELSE IF course_column_missing(file.columns)
        THEN halted(<<"load", "preview", "error:no_course", "stop">>)
        ELSE IF "COURSE" \notin ColumnSet(file.columns)
        \* df['COURSE'] raises KeyError
        THEN halted(<<"load", "preview", "exception">>)
        ELSE IF feedback_columns(file.columns) = <<>>
        THEN halted(<<"load", "preview", "validated:course", "feedback_cols",
                      "error:no_feedback", "stop">>)
        ELSE
            LET rows == strip_courses(file.rows)
                fcols == feedback_columns(file.columns)
                courses == course_list(rows)
                pre == <<"load", "preview", "validated:course", "feedback_cols",
                         "validated:feedback", "mkdir", "params">>
                branch ==
                    IF r.analysis_mode = "Single Course"
                    THEN IF r.button
                         THEN single_course(rows, fcols, r.selected_course,
                                            r.export_format, registry)
                         ELSE [steps |-> <<>>, figs |-> registry,
                               archive |-> <<>>, offered |-> FALSE, rates |-> <<>>]
                    ELSE IF r.analysis_mode = "Compare Courses"
                    THEN IF Len(r.selected_courses) >= 2
                         THEN IF r.button
                              THEN compare_courses(rows, fcols, r.selected_courses, registry)
                              ELSE [steps |-> <<>>, figs |-> registry,
                                    archive |-> <<>>, offered |-> FALSE, rates |-> <<>>]
                         ELSE [steps |-> <<"info:select_two">>, figs |-> registry,
                               archive |-> <<>>, offered |-> FALSE, rates |-> <<>>]
                    ELSE IF r.button
                         THEN all_courses(rows, fcols, courses, r.hist_raises, registry)
                         ELSE [steps |-> <<>>, figs |-> registry,
                               archive |-> <<>>, offered |-> FALSE, rates |-> <<>>]
            IN  main_result(pre, branch, create_output_dir(dir), fcols,
                            r.analysis_mode = "All Courses" /\ r.button)

\* ========================================================== VisualTool.py
ChartTypes == {"Bar", "Boxplot", "Pie", "Line", "Scatter", "Area", "Violin",
               "Histogram", "Pairplot"}
GroupedCharts == {"Bar", "Boxplot", "Pie", "Line", "Scatter", "Area", "Violin"}

\* The custom formulas tried: none, a valid expression over Q1, an
\* expression that does not parse, an expression over a missing column.
Formulas == {"", "Q1 - 1", "Q1 -", "Q9 - 1"}

\* dtype of a column after pd.read_csv: numeric when it has rows and every
\* cell is a number or missing.
is_numeric_column(rows, c) ==
    /\ rows # <<>>
    /\ \A i \in DOMAIN rows : rows[i][c].t \in {"num", "nan"}

\* df.select_dtypes(include='number').columns.tolist()
numeric_cols(columns, rows) == SelectSeq(columns, LAMBDA c : is_numeric_column(rows, c))

\* df.select_dtypes(exclude='number').columns.tolist()
categorical_cols(columns, rows) == SelectSeq(columns, LAMBDA c : ~is_numeric_column(rows, c))

\* pd.eval(custom_formula, engine='python', local_dict=df.to_dict('series'))
formula_raises(formula, columns, rows) ==
    \/ formula = "Q1 -"
    \/ formula = "Q9 - 1"
    \/ formula = "Q1 - 1" /\ "Q1" \notin ColumnSet(columns)
    \/ formula = "Q1 - 1" /\ \E i \in DOMAIN rows : rows[i]["Q1"].t = "str"

formula_value(formula, row) ==
    IF row["Q1"].t = "num" THEN Num(row["Q1"].v - 1) ELSE NaN

\* The inputs of one request of VisualTool.py.
VisualToolBase(file) ==
    [kind |-> "VisualTool", file |-> file, group_col |-> None, value_col |-> None,
     custom_formula |-> "", chart_type |-> None]

VisualToolWidgetValues(file) ==
    IF file.kind # "csv" THEN {VisualToolBase(file)}
    ELSE
        LET nums == numeric_cols(file.columns, file.rows)
            cats == categorical_cols(file.columns, file.rows)
        IN  {[VisualToolBase(file) EXCEPT !.group_col = g, !.value_col = v,
                                          !.custom_formula = f, !.chart_type = t] :
                g \in {None} \cup (IF cats = <<>> THEN {} ELSE {cats[1]}),
                v \in (IF nums = <<>> THEN {None} ELSE {nums[i] : i \in DOMAIN nums}),
                f \in Formulas,
                t \in ChartTypes}

\* except Exception around pd.eval: what follows the error message.
after_formula_error_halts == <<"error:formula", "stop">>

after_formula_error == <<"error:formula">>

\* value_col after the formula block: the assignment value_col = "CustomCol"
\* follows pd.eval inside the try, so it is skipped when pd.eval raises.
value_col_assigned_first(tried, raised, selected) ==
    IF tried THEN "CustomCol" ELSE selected

value_col_after_formula(tried, raised, selected) ==
    IF tried /\ ~raised THEN "CustomCol" ELSE selected

\* The if/elif chain that renders the selected chart: whether one of its
\* plotting branches is taken.
chart_selected_any_numeric(chart_type, group_col, value_col, n_numeric) ==
    \/ chart_type \in GroupedCharts /\ group_col # None /\ value_col # None
    \/ chart_type = "Histogram" /\ value_col # None
    \/ chart_type = "Pairplot" /\ n_numeric > 0

chart_selected(chart_type, group_col, value_col, n_numeric) ==
    \/ chart_type \in GroupedCharts /\ group_col # None /\ value_col # None
    \/ chart_type = "Histogram" /\ value_col # None
    \/ chart_type = "Pairplot" /\ n_numeric > 1

\* The script VisualTool.py for one request.
VisualTool_main(r, registry) ==
    LET file == r.file
    IN  IF file.kind = "none"
        THEN [steps |-> <<"footer">>, figs |-> registry,
              columns |-> <<>>, rows |-> <<>>, value_col |-> None, chart |-> None]
        ELSE IF file.kind = "bad"
        THEN [steps |-> load_failure, figs |-> registry,
              columns |-> <<>>, rows |-> <<>>, value_col |-> None, chart |-> None]
        ELSE
            LET tried == r.custom_formula # ""
                raised == tried /\ formula_raises(r.custom_formula, file.columns, file.rows)
                applied == tried /\ ~raised
                columns == IF applied /\ "CustomCol" \notin ColumnSet(file.columns)
                           THEN Append(file.columns, "CustomCol") ELSE file.columns
                rows == IF applied
                        THEN [i \in DOMAIN file.rows |->
                                 [c \in ColumnSet(columns) |->
                                     IF c = "CustomCol"
                                     THEN formula_value(r.custom_formula, file.rows[i])
                                     ELSE file.rows[i][c]]]
                        ELSE file.rows
                value_col == value_col_after_formula(tried, raised, r.value_col)
                formula_steps == IF ~tried THEN <<>>
                                 ELSE IF raised THEN after_formula_error
                                 ELSE <<"formula_ok">>
                stopped == formula_steps # <<>> /\ formula_steps[Len(formula_steps)] = "stop"
                draws == chart_selected(r.chart_type, r.group_col, value_col,
                                        Len(numeric_cols(columns, rows)))
                render == IF draws THEN <<"draw">> ELSE <<"warn:select_columns">>
            IN  IF stopped
                THEN [steps |-> <<"load">> \o formula_steps, figs |-> registry,
                      columns |-> columns, rows |-> rows, value_col |-> value_col,
                      chart |-> None]
                ELSE [steps |-> <<"load">> \o formula_steps \o render \o <<"footer">>,
                      figs |-> IF draws THEN Append(registry, Fig("chart", None))
                               ELSE registry,
                      columns |-> columns, rows |-> rows, value_col |-> value_col,
                      chart |-> IF draws THEN r.chart_type ELSE None]

\* ================================================================ requests
\* The browser sessions connected to the process.  Every session runs the
\* script in the same Python process, so all of them share pyplot's registry.
Sessions == {"s1", "s2"}

\* The owners of the registry after a request of session s.
owners_after(own, registry_after, s) ==
    own \o [i \in 1..(Len(registry_after) - Len(own)) |-> s]

Init ==
    /\ app \in {"VT", "VisualTool"}
    /\ figs = <<>>
    /\ owner = <<>>
    /\ dir_exists \in BOOLEAN
    /\ req = NoReq
    /\ out = NoOut
    /\ calc = [op |-> "none"]

\* One run of VT.py by session s, from the upload widget to the end of main().
VTRequestBy(s) ==
    /\ app = "VT"
    /\ req = NoReq
    /\ Len(figs) + 3 <= MaxFigs
    /\ \E file \in Files :
        \E r \in VTWidgetValues(file) :
            LET res == VT_main(r, figs, dir_exists)
            IN  /\ req' = r
                /\ out' = [kind |-> "VT", steps |-> res.steps,
                           archive |-> res.archive, offered |-> res.offered,
                           figs_before |-> Len(figs), dir_before |-> dir_exists,
                           feedback_cols |-> res.feedback_cols, session |-> s,
                           rates |-> res.rates, summary |-> res.summary,
                           ranked |-> res.ranked]
                /\ figs' = res.figs
                /\ owner' = owners_after(owner, res.figs, s)
                /\ dir_exists' = res.dir_exists
    /\ UNCHANGED <<app, calc>>

\* A process serving one session.
VTRequest == VTRequestBy("s1")

\* One run of VisualTool.py, from top to bottom.
VisualToolRequest ==
    /\ app = "VisualTool"
    /\ req = NoReq
    /\ Len(figs) + 3 <= MaxFigs
    /\ \E file \in Files :
        \E r \in VisualToolWidgetValues(file) :
            LET res == VisualTool_main(r, figs)
            IN  /\ req' = r
                /\ out' = [kind |-> "VisualTool", steps |-> res.steps,
                           columns |-> res.columns, rows |-> res.rows,
                           value_col |-> res.value_col, chart |-> res.chart,
                           archive |-> <<>>, offered |-> FALSE,
                           figs_before |-> Len(figs), session |-> "s1"]
                /\ figs' = res.figs
                /\ owner' = owners_after(owner, res.figs, "s1")
    /\ UNCHANGED <<app, dir_exists, calc>>

\* The run is over: its locals (the DataFrame, the derived tables, the
\* archive buffer) go out of scope.  The process keeps the figure registry
\* and the working directory.
EndRequest ==
    /\ req # NoReq
    /\ req' = NoReq
    /\ out' = NoOut
    /\ UNCHANGED <<app, figs, owner, dir_exists, calc>>

Next ==
    \/ VTRequest
    \/ VisualToolRequest
    \/ EndRequest

Spec == Init /\ [][Next]_vars

\* ------------------------------------------- several sessions of VT.py
\* Streamlit runs the script once per interaction of any connected session;
\* the runs of different sessions follow each other in any order.
SessionInit ==
    /\ app = "VT"
    /\ figs = <<>>
    /\ owner = <<>>
    /\ dir_exists \in BOOLEAN
    /\ req = NoReq
    /\ out = NoOut
    /\ calc = [op |-> "none"]

SessionVTRequest == \E s \in Sessions : VTRequestBy(s)

SessionNext ==
    \/ SessionVTRequest
    \/ EndRequest

SessionSpec == SessionInit /\ [][SessionNext]_vars

\* ============================================ properties of the aggregates
RECURSIVE SetSum(_, _)
SetSum(f, S) ==
    IF S = {} THEN 0
    ELSE LET x == CHOOSE y \in S : TRUE
         IN  f[x] + SetSum(f, S \ {x})

HasSeries == calc.op \in {"cumulative", "aggregate"}

\* The numeric ratings behind calc.series, read from the input itself: the
\* entries of the series, or the cells of the course table before coercion.
RatingPositions ==
    IF calc.op = "aggregate"
    THEN {p \in (DOMAIN calc.df_course) \X (DOMAIN calc.current_cols) :
              calc.df_course[p[1]][calc.current_cols[p[2]]].t = "num"}
    ELSE {i \in DOMAIN calc.series : calc.series[i].t = "num"}

RatingAt ==
    IF calc.op = "aggregate"
    THEN [p \in RatingPositions |-> calc.df_course[p[1]][calc.current_cols[p[2]]].v]
    ELSE [i \in RatingPositions |-> calc.series[i].v]

RatingCount == Cardinality(RatingPositions)
RatingSum == SetSum(RatingAt, RatingPositions)
RatingsInScale == \A p \in RatingPositions : RatingAt[p] >= 1 /\ RatingAt[p] <= 5

Clamp0to100(q) ==
    IF RatLt(q, RatInt(0)) THEN RatInt(0)
    ELSE IF RatLt(RatInt(100), q) THEN RatInt(100) ELSE q

\* C1: when every numeric rating lies in [1,5], the value that
\* plot_cumulative_pie shows for the result of
\* calculate_cumulative_percentage is (mean of the ratings)/5*100, clamped
\* to [0,100].
C1_CumulativeIsMeanOverFive ==
    (HasSeries /\ RatingCount > 0 /\ RatingsInScale) =>
        /\ RatEq(calc.score, Clamp0to100(<<100 * RatingSum, 5 * RatingCount>>))
        /\ RatEq(RatAdd(calc.score, calc.remainder), RatInt(100))

C1_Witness ==
    /\ calc.op = "aggregate"
    /\ RatingsInScale
    /\ RatingCount >= 2
    /\ \E p, q \in RatingPositions : RatingAt[p] # RatingAt[q]
    /\ ~RatEq(calc.score, RatInt(100))

\* C2: for a non-empty long-form table, the percentages that
\* plot_distribution computes for the response values of one question sum
\* to 100, for every question of the table.
HasDistribution ==
    /\ calc.op \in {"distribution", "aggregate"}
    /\ calc.df_long # <<>>

C2_PercentagesSumTo100 ==
    HasDistribution =>
        \A i \in DOMAIN calc.df_long :
            LET q == calc.df_long[i].Question
                rowsOfQ == SelectSeq(calc.count_df, LAMBDA row : row.Question = q)
            IN  RatEq(RatSeqSum([k \in DOMAIN rowsOfQ |-> rowsOfQ[k].Percentage]),
                      RatInt(100))

C2_Witness ==
    /\ calc.op = "distribution"
    /\ \E i, j \in DOMAIN calc.df_long :
          /\ calc.df_long[i].Question # calc.df_long[j].Question
    /\ \E i, j \in DOMAIN calc.df_long :
          /\ calc.df_long[i].Question = calc.df_long[j].Question
          /\ calc.df_long[i].Response # calc.df_long[j].Response

\* C3: the percentage of a (question, response value) pair is the number
\* of rows with that question and value, divided by the number of rows of
\* that question, times 100; every observed pair has exactly one such
\* entry, and the rows of other questions do not change it.
RowsOf(t, q) == {i \in DOMAIN t : t[i].Question = q}
RowsOfPair(t, q, r) == {i \in DOMAIN t : t[i].Question = q /\ t[i].Response = r}
OnlyQuestion(t, q) == SelectSeq(t, LAMBDA row : row.Question = q)

C3_PercentageIsShareOfQuestion ==
    HasDistribution =>
        /\ \A k \in DOMAIN calc.count_df :
              LET q == calc.count_df[k].Question
                  r == calc.count_df[k].Response
                  alone == count_df(OnlyQuestion(calc.df_long, q))
              IN  /\ RowsOfPair(calc.df_long, q, r) # {}
                  /\ RatEq(calc.count_df[k].Percentage,
                           <<100 * Cardinality(RowsOfPair(calc.df_long, q, r)),
                             Cardinality(RowsOf(calc.df_long, q))>>)
                  /\ \E a \in DOMAIN alone :
                        /\ alone[a].Response = r
                        /\ alone[a].Percentage = calc.count_df[k].Percentage
        /\ \A i \in DOMAIN calc.df_long :
              Cardinality({k \in DOMAIN calc.count_df :
                  /\ calc.count_df[k].Question = calc.df_long[i].Question
                  /\ calc.count_df[k].Response = calc.df_long[i].Response}) = 1

C3_Witness ==
    /\ calc.op = "aggregate"
    /\ \E k, j \in DOMAIN calc.count_df :
          /\ calc.count_df[k].Question # calc.count_df[j].Question
          /\ calc.count_df[k].Count = 1
          /\ calc.count_df[j].Count = 2

\* C4: the cumulative percentage is the mean of the valid numeric responses
\* over 5, times 100: missing (and non-numeric) entries enter neither the
\* sum nor the count, and without any valid response the result is 0.
C4_OnlyValidResponsesCount ==
    HasSeries =>
        /\ RatingCount = 0 => calc.pct = RatInt(0)
        /\ RatingCount > 0 => RatEq(calc.pct, <<100 * RatingSum, 5 * RatingCount>>)

C4_Witness ==
    /\ calc.op = "aggregate"
    /\ RatingCount > 0
    /\ \E r \in DOMAIN calc.df_course : \E c \in DOMAIN calc.current_cols :
          calc.df_course[r][calc.current_cols[c]].t = "nan"
    /\ \E r \in DOMAIN calc.df_course : \E c \in DOMAIN calc.current_cols :
          calc.df_course[r][calc.current_cols[c]].t = "str"

C4_WitnessNoValid ==
    /\ calc.op = "cumulative"
    /\ calc.series # <<>>
    /\ RatingCount = 0


\* ================================================= properties of requests
AggregateSteps == {"aggregate:metrics", "aggregate:dist_summary", "aggregate:top_bottom",
                   "aggregate:overall_score", "aggregate:comparison",
                   "aggregate:summary", "aggregate:overview_metrics",
                   "aggregate:ranking"}
DrawSteps == {"draw:distribution", "draw:average_scores", "draw:overall_performance",
              "draw:comparison_bar", "draw:comparison_scatter",
              "draw:institutional_overview", "draw"}
BundleSteps == {"bundle", "download_button"}

StepSet(steps) == {steps[i] : i \in DOMAIN steps}
LastStep(steps) == steps[Len(steps)]

\* C5: when the uploaded CSV has no 'COURSE' column, main shows the error
\* and stops; the request extracts no feedback columns, creates no
\* directory, computes no aggregate, draws no chart and offers no archive.
NoCourseColumn(r) ==
    /\ r.kind = "VT"
    /\ r.file.kind = "csv"
    /\ "COURSE" \notin ColumnSet(r.file.columns)

C5_NoCourseColumnHalts ==
    [][NoCourseColumn(req') =>
          /\ "error:no_course" \in StepSet(out'.steps)
          /\ LastStep(out'.steps) = "stop"
          /\ StepSet(out'.steps) \cap
                (AggregateSteps \cup DrawSteps \cup BundleSteps
                    \cup {"feedback_cols", "mkdir", "exception"}) = {}
          /\ out'.archive = <<>>
          /\ ~out'.offered
          /\ figs' = figs
          /\ dir_exists' = dir_exists]_vars

C5_Witness ==
    /\ NoCourseColumn(req)
    /\ req.file.rows # <<>>
    /\ "error:no_course" \in StepSet(out.steps)
    /\ ~dir_exists

\* C6: in both scripts, when reading the uploaded CSV raises, the exception
\* is caught, an error message is shown and the request stops before any
\* column selection, aggregation or chart.
UnreadableFile(r) ==
    /\ r.kind \in {"VT", "VisualTool"}
    /\ r.file.kind = "bad"

C6_LoadErrorHalts ==
    [][UnreadableFile(req') =>
          /\ "error:load" \in StepSet(out'.steps)
          /\ LastStep(out'.steps) = "stop"
          /\ StepSet(out'.steps) \cap
                (AggregateSteps \cup DrawSteps \cup BundleSteps
                    \cup {"exception", "load", "preview", "feedback_cols", "mkdir",
                          "params", "formula_ok", "error:formula",
                          "warn:select_columns", "footer"}) = {}
          /\ out'.archive = <<>>
          /\ ~out'.offered
          /\ figs' = figs
          /\ dir_exists' = dir_exists]_vars

C6_Witness ==
    /\ UnreadableFile(req)
    /\ app = "VisualTool"
    /\ figs # <<>>
    /\ out.steps = <<"error:load", "stop">>

\* C7 as stated: in the generic script, after the error message of an
\* invalid custom formula the request stops and no chart is rendered.
FormulaFailed(r) ==
    /\ r.kind = "VisualTool"
    /\ r.file.kind = "csv"
    /\ r.custom_formula # ""
    /\ formula_raises(r.custom_formula, r.file.columns, r.file.rows)

NoValidResponse(r) ==
    /\ r.kind = "VT"
    /\ r.analysis_mode = "Single Course"
    /\ r.button
    /\ \E i \in DOMAIN r.file.rows : str_strip(r.file.rows[i]["COURSE"].s) = r.selected_course
    /\ \A i \in DOMAIN r.file.rows :
          str_strip(r.file.rows[i]["COURSE"].s) = r.selected_course =>
              \A c \in ColumnSet(r.file.columns) :
                  (~IsMetaColumn(c) /\ ~IsKeyColumn(c)) => r.file.rows[i][c].t # "num"

C8_NoValidResponseNoCharts ==
    [][NoValidResponse(req') =>
          /\ "warn:no_valid" \in StepSet(out'.steps)
          /\ StepSet(out'.steps) \cap DrawSteps = {}
          /\ figs' = figs]_vars

C8_Witness ==
    /\ NoValidResponse(req)
    /\ Len(req.file.rows) = 2
    /\ \E i \in DOMAIN req.file.rows : req.file.rows[i]["Q1"].t = "num"
    /\ "warn:no_valid" \in StepSet(out.steps)

\* C9: every request of the feedback analyzer follows load -> validate ->
\* aggregate -> draw -> bundle: an aggregate or a chart comes only after the
\* file was loaded and validated in this request, and an archive is bundled
\* only after the charts it contains were drawn in this request.
C9_LinearPipeline ==
    out.kind = "VT" =>
        /\ \A i \in DOMAIN out.steps :
              out.steps[i] \in AggregateSteps \cup DrawSteps =>
                  /\ \E j \in 1..(i - 1) : out.steps[j] = "load"
                  /\ \E j \in 1..(i - 1) : out.steps[j] = "validated:feedback"
        /\ \A i \in DOMAIN out.steps :
              out.steps[i] = "bundle" =>
                  /\ \A j \in DOMAIN out.steps : out.steps[j] \in DrawSteps => j < i
                  /\ \A k \in DOMAIN out.archive :
                        out.archive[k].fig # 0 =>
                            /\ out.archive[k].fig > out.figs_before
                            /\ \E j \in 1..(i - 1) : out.steps[j] \in DrawSteps

\* C10: what a request delivers is determined by its file and parameter
\* values alone -- it is what the same request delivers in a process that
\* has served no request before -- and its archive holds no chart of an
\* earlier request.
ArchiveContents(archive, registry) ==
    [k \in DOMAIN archive |->
        [name |-> archive[k].name,
         content |-> IF archive[k].fig = 0 THEN Fig("csv", None)
                     ELSE registry[archive[k].fig]]]

C10_NothingOutlivesRequest ==
    out.kind = "VT" =>
        LET fresh == VT_main(req, <<>>, FALSE)
        IN  /\ out.steps = fresh.steps
            /\ out.offered = fresh.offered
            /\ ArchiveContents(out.archive, figs) = ArchiveContents(fresh.archive, fresh.figs)
            /\ \A k \in DOMAIN out.archive :
                  out.archive[k].fig = 0 \/ out.archive[k].fig > out.figs_before


\* ============================================== properties of the storage
\* The request passed the validations of main(): the file loaded, it has a
\* COURSE column and at least one feedback column.
PassedValidation(r) ==
    /\ r.kind = "VT"
    /\ r.file.kind = "csv"
    /\ "COURSE" \in ColumnSet(r.file.columns)
    /\ Len(r.file.columns) >= 10

EntryExtensions(archive) == {archive[i].name[3] : i \in DOMAIN archive}

\* C12: every ZIP archive offered for download (the Single Course package
\* and the All Courses report) contains the rendered charts as PNG images
\* and a CSV summary.
C12_ArchiveHasPngAndCsv ==
    (req # NoReq /\ out.offered) =>
        /\ "csv" \in EntryExtensions(out.archive)
        /\ "png" \in EntryExtensions(out.archive)
        /\ EntryExtensions(out.archive) \subseteq {"png", "csv"}

\* ====================================== properties of the feedback columns
\* The columns of a file at 0-based positions 9 and above, in file order.
ColumnsFromPosition9(columns) ==
    [i \in 1..(IF Len(columns) > 9 THEN Len(columns) - 9 ELSE 0) |-> columns[9 + i]]

CourseSteps == {"subheader"} \cup AggregateSteps \cup DrawSteps \cup BundleSteps

\* C13: the feedback questions are exactly the columns at 0-based positions
\* 9 and above, in file order; when the file has no column at position 9 or
\* above an error is shown and the request halts before any course is
\* analysed.
C13_FeedbackColumnsFromPosition9 ==
    (req # NoReq /\ req.kind = "VT" /\ req.file.kind = "csv"
                 /\ "COURSE" \in ColumnSet(req.file.columns)) =>
        /\ out.feedback_cols = ColumnsFromPosition9(req.file.columns)
        /\ Len(req.file.columns) <= 9 =>
              /\ out.steps = <<"load", "preview", "validated:course", "feedback_cols",
                               "error:no_feedback", "stop">>
              /\ StepSet(out.steps) \cap CourseSteps = {}
              /\ Len(figs) = out.figs_before
              /\ ~out.offered
        /\ Len(req.file.columns) > 9 =>
              "error:no_feedback" \notin StepSet(out.steps)

\* A file with two questions, stored in the order Q2, Q1, was analysed.
C13_Witness ==
    /\ req # NoReq
    /\ req.kind = "VT"
    /\ out.feedback_cols = <<"Q2", "Q1">>
    /\ "draw:distribution" \in StepSet(out.steps)

\* A file with nine columns was rejected.
C13_WitnessNoFeedback ==
    /\ req # NoReq
    /\ req.kind = "VT"
    /\ req.file.kind = "csv"
    /\ Len(req.file.columns) = 9
    /\ req.file.rows # <<>>
    /\ LastStep(out.steps) = "stop"

\* ============================================ properties of the sessions
\* C14: sessions share no mutable resource: when the requests of two
\* sessions interleave in one process, the archive delivered to a session
\* contains nothing produced by the other session, in particular not
\* through the process-wide figure registry.
C14_SessionsIsolated ==
    (req # NoReq /\ out.offered) =>
        \A i \in DOMAIN out.archive :
            out.archive[i].fig # 0 => owner[out.archive[i].fig] = out.session

\* C15: in Single Course mode an archive is offered only when
\* process_course drew charts for the selected course in this request; it
\* then holds exactly those charts, and the entries named
\* <course>_distribution, <course>_average_scores and
\* <course>_overall_performance contain the respective charts.
C15_SingleCourseArchiveIsOwnCharts ==
    (req # NoReq /\ req.kind = "VT" /\ req.analysis_mode = "Single Course"
                 /\ out.offered) =>
        /\ {"draw:distribution", "draw:average_scores", "draw:overall_performance"}
               \subseteq StepSet(out.steps)
        /\ Len(figs) = out.figs_before + 3
        /\ Len(out.archive) = 3
        /\ \A i \in DOMAIN out.archive :
              /\ out.archive[i].fig = out.figs_before + i
              /\ out.archive[i].name[1] = sanitize_filename(req.selected_course)
              /\ out.archive[i].name[2] = chart_names[i]
              /\ figs[out.archive[i].fig] = Fig(chart_names[i], req.selected_course)

\* ======================================== properties of the average chart
BarQuestions == [i \in DOMAIN calc.bars |-> calc.bars[i].Question]

\* C16: with sort order 'original' the average-scores chart shows the
\* questions in their original column order; with 'ascending' the bars are
\* in non-decreasing order of mean, with 'descending' in non-increasing
\* order.
C16_SortOrderOfBars ==
    (calc.op = "aggregate" /\ calc.df_long # <<>>) =>
        /\ calc.avg_sort_order = "original" => BarQuestions = calc.current_cols
        /\ calc.avg_sort_order = "ascending" =>
              \A i, j \in DOMAIN calc.bars :
                  (i < j /\ ~calc.bars[i].nan /\ ~calc.bars[j].nan) =>
                      RatLe(calc.bars[i].mean, calc.bars[j].mean)
        /\ calc.avg_sort_order = "descending" =>
              \A i, j \in DOMAIN calc.bars :
                  (i < j /\ ~calc.bars[i].nan /\ ~calc.bars[j].nan) =>
                      RatLe(calc.bars[j].mean, calc.bars[i].mean)

\* ====================================== properties of the chart parameters
\* C17: after the parameter collection ui_params defines every key that
\* plot_distribution, plot_average_scores, plot_cumulative_pie and
\* apply_custom_style read, whichever widgets were rendered; a key present
\* in the session state keeps its session value and is never overwritten by
\* the default.
C17_ParamsCompleteSessionFirst ==
    calc.op = "params" =>
        /\ ReadKeys \subseteq DOMAIN calc.ui_params
        /\ \A k \in DOMAIN calc.session_state :
              k[1] \in ParamPrefixes =>
                  /\ k \in DOMAIN calc.ui_params
                  /\ calc.ui_params[k] = calc.session_state[k]
        /\ \A k \in DOMAIN calc.ui_params :
              k \notin DOMAIN calc.session_state =>
                  calc.ui_params[k] = [from |-> "default", key |-> k]

\* The legend and value widgets of the distribution chart were not rendered
\* (their keys are read from the defaults), the sort order came from its
\* widget, and 'pie_explode' was left by an earlier run.
C17_Witness ==
    /\ calc.op = "params"
    /\ ~calc.widgets.dist_show_legend
    /\ ~calc.widgets.avg_show_values
    /\ ~calc.widgets.pie_explode_enable
    /\ calc.widgets.pie_explode_kept
    /\ <<"dist", "legend_title">> \notin DOMAIN calc.session_state
    /\ calc.ui_params[<<"dist", "legend_title">>].from = "default"
    /\ calc.ui_params[<<"avg", "sort_order">>].from = "session"
    /\ calc.ui_params[<<"pie", "explode">>].from = "session"

\* ======================================= properties of the generic script
Count(steps, S) == Cardinality({i \in DOMAIN steps : steps[i] \in S})

\* The columns of the loaded file that hold numbers, independently of the
\* script: a column is numeric when the file has rows and none of its cells
\* is a text.
NumericColumnsOf(file) ==
    {c \in ColumnSet(file.columns) :
        file.rows # <<>> /\ \A i \in DOMAIN file.rows : file.rows[i][c].t # "str"}

\* The number of numeric columns of the data set the chart is drawn from:
\* those of the file, and CustomCol when the formula was applied.
NumericColumnCount ==
    Cardinality(NumericColumnsOf(req.file))
        + (IF "CustomCol" \in ColumnSet(out.columns) THEN 1 ELSE 0)

C18_WitnessWarning ==
    /\ req # NoReq
    /\ req.kind = "VisualTool"
    /\ req.chart_type = "Pairplot"
    /\ NumericColumnCount = 1
    /\ "warn:select_columns" \in StepSet(out.steps)

\* A formula was entered for a loaded file.
FormulaTried(r) ==
    /\ r.kind = "VisualTool"
    /\ r.file.kind = "csv"
    /\ r.custom_formula # ""

\* C19: when the evaluation of the custom formula fails the data set is
\* unchanged (no column 'CustomCol' is added) and the value column stays the
\* one selected in the sidebar; when it succeeds the data set gains the
\* column 'CustomCol' and the value column that the charts use is
\* 'CustomCol'.
C19_FormulaOutcome ==
    (req # NoReq /\ FormulaTried(req)) =>
        /\ Count(out.steps, {"error:formula"}) + Count(out.steps, {"formula_ok"}) = 1
        /\ req.custom_formula \in {"Q1 -", "Q9 - 1"} => "error:formula" \in StepSet(out.steps)
        /\ (req.custom_formula = "Q1 - 1" /\ "Q1" \in NumericColumnsOf(req.file)) =>
              "formula_ok" \in StepSet(out.steps)
        /\ "error:formula" \in StepSet(out.steps) =>
              /\ out.columns = req.file.columns
              /\ out.rows = req.file.rows
              /\ "CustomCol" \notin ColumnSet(out.columns)
              /\ out.value_col = req.value_col
        /\ "formula_ok" \in StepSet(out.steps) =>
              /\ out.columns = Append(req.file.columns, "CustomCol")
              /\ Len(out.rows) = Len(req.file.rows)
              /\ \A i \in DOMAIN out.rows :
                    /\ \A c \in ColumnSet(req.file.columns) :
                          out.rows[i][c] = req.file.rows[i][c]
                    /\ out.rows[i]["CustomCol"] =
                          (IF req.file.rows[i]["Q1"].t = "num"
                           THEN Num(req.file.rows[i]["Q1"].v - 1) ELSE NaN)
              /\ out.value_col = "CustomCol"

\* A histogram was drawn from CustomCol after the formula was applied.
C19_Witness ==
    /\ req # NoReq
    /\ FormulaTried(req)
    /\ "formula_ok" \in StepSet(out.steps)
    /\ req.value_col = "Q1"
    /\ out.value_col = "CustomCol"
    /\ out.chart = "Histogram"
    /\ Len(out.rows) = 2

\* The formula failed and the histogram was drawn from the selected column.
C19_WitnessFailed ==
    /\ req # NoReq
    /\ FormulaTried(req)
    /\ "error:formula" \in StepSet(out.steps)
    /\ out.value_col = "Q1"
    /\ out.chart = "Histogram"

\* ========================================= properties of the long table
\* The numbers of one column of the course's rows, in row order; a cell
\* that is missing or a text is not a number.
NumbersOfColumn(table, c) ==
    LET cells == [r \in DOMAIN table |-> table[r][c]]
        nums == SelectSeq(cells, LAMBDA x : x.t = "num")
    IN  [k \in DOMAIN nums |-> nums[k].v]

ResponsesOf(t, q) ==
    LET rows == SelectSeq(t, LAMBDA row : row.Question = q)
    IN  [k \in DOMAIN rows |-> rows[k].Response]

NumericCellCount(table, cols) ==
    SeqSum([i \in DOMAIN cols |-> Len(NumbersOfColumn(table, cols[i]))])

\* C20: the long table has exactly one row per numeric cell of the course's
\* feedback columns: a missing or non-numeric cell yields no row, and every
\* row's Question is the name of the column its Response came from.
C20_OneRowPerNumericCell ==
    calc.op = "aggregate" =>
        /\ Len(calc.df_long) = NumericCellCount(calc.df_course, calc.current_cols)
        /\ \A i \in DOMAIN calc.df_long :
              \E j \in DOMAIN calc.current_cols :
                  calc.df_long[i].Question = calc.current_cols[j]
        /\ \A j \in DOMAIN calc.current_cols :
              ResponsesOf(calc.df_long, calc.current_cols[j])
                  = NumbersOfColumn(calc.df_course, calc.current_cols[j])

\* Two columns with different numbers, a missing cell and a text cell.
C20_Witness ==
    /\ calc.op = "aggregate"
    /\ calc.current_cols = <<"Q1", "Q2">>
    /\ Len(calc.df_course) = 2
    /\ calc.df_course[1]["Q1"] = NaN
    /\ calc.df_course[2]["Q1"] = Num(4)
    /\ calc.df_course[1]["Q2"] = Num(5)
    /\ calc.df_course[2]["Q2"] = Txt("x")
    /\ calc.df_long = <<[Question |-> "Q1", Response |-> 4],
                        [Question |-> "Q2", Response |-> 5]>>

\* =========================================== properties of the response rate
\* The courses whose response rate the request computed, in the order of
\* the computation.
RateCourses(r, o) ==
    IF r.analysis_mode = "Single Course" THEN <<r.selected_course>>
    ELSE IF r.analysis_mode = "Compare Courses" THEN r.selected_courses
    ELSE course_list(strip_courses(r.file.rows))

\* The rows of the uploaded file whose stripped course name is course.
UploadedRowsOf(r, course) ==
    SelectSeq(r.file.rows, LAMBDA row : str_strip(row["COURSE"].s) = course)

\* C21: every response rate that a request computes is the number of numeric
\* feedback cells of the course divided by (rows of the course x feedback
\* columns) x 100; the denominator is positive and the rate lies in [0,100].
C21_ResponseRate ==
    (req # NoReq /\ out.kind = "VT") =>
        \A i \in DOMAIN out.rates :
            LET course == RateCourses(req, out)[i]
                df_course == UploadedRowsOf(req, course)
                valid == NumericCellCount(df_course, out.feedback_cols)
                den == Len(df_course) * Len(out.feedback_cols)
                rate == out.rates[i]
            IN  /\ i \in DOMAIN RateCourses(req, out)
                /\ den > 0
                /\ rate.den = den
                /\ rate.count = valid
                /\ rate.value[1] * den = valid * 100 * rate.value[2]
                /\ RatLe(RatInt(0), rate.value)
                /\ RatLe(rate.value, RatInt(100))

\* Compare Courses computed the rates of two courses with two feedback
\* columns each; one cell of the first course is not a number.
C21_Witness ==
    /\ req # NoReq
    /\ out.kind = "VT"
    /\ req.analysis_mode = "Compare Courses"
    /\ Len(out.feedback_cols) = 2
    /\ Len(out.rates) = 2
    /\ out.rates[1].den = 2
    /\ out.rates[1].count = 1
    /\ out.rates[1].value = RatInt(50)

\* Single Course computed the rate of a course of two rows and two columns.
C21_WitnessSingle ==
    /\ req # NoReq
    /\ out.kind = "VT"
    /\ req.analysis_mode = "Single Course"
    /\ Len(out.rates) = 1
    /\ out.rates[1].den = 4
    /\ out.rates[1].count = 3

\* All Courses computed the rates of two courses.
C21_WitnessAllCourses ==
    /\ req # NoReq
    /\ out.kind = "VT"
    /\ req.analysis_mode = "All Courses"
    /\ Len(out.rates) = 2
    /\ out.rates[2].count = 0
    /\ out.rates[1].count = 1

\* ================================================ properties of the ranking
\* The All Courses report of the request reached its ranking table.
RankingShown ==
    /\ req # NoReq
    /\ out.kind = "VT"
    /\ req.analysis_mode = "All Courses"
    /\ out.ranked # <<>>

RankedCourses(t) == {t[i].Course : i \in DOMAIN t}

\* The ranking holds the rows of the summary, each once.
IsPermutationOfSummary(ranked, summary) ==
    /\ Len(ranked) = Len(summary)
    /\ \A i \in DOMAIN ranked : \E k \in DOMAIN summary : ranked[i] = summary[k]
    /\ \A k \in DOMAIN summary : \E i \in DOMAIN ranked : ranked[i] = summary[k]
    /\ \A i, j \in DOMAIN ranked : ranked[i].Course = ranked[j].Course => i = j

\* C22 as stated: the ranking is a permutation of the summary with ranks
\* 1..n, and for every pair of ranks i < j the overall mean at rank i is
\* greater than or equal to the overall mean at rank j (a comparison with an
\* undefined mean is false).
C22_RankingDescending ==
    RankingShown =>
        /\ IsPermutationOfSummary(out.ranked, out.summary)
        /\ DOMAIN out.ranked = 1..Len(out.summary)
        /\ \A i, j \in DOMAIN out.ranked :
              i < j => /\ ~out.ranked[i].nan
                       /\ ~out.ranked[j].nan
                       /\ RatLe(out.ranked[j].mean, out.ranked[i].mean)

\* C22: the ranking is a permutation of the summary with ranks 1..n; the
\* courses whose overall mean is a number come first, ordered by overall mean
\* descending, and the courses whose overall mean is undefined come after
\* all of them.
C22_RankingDefinedFirst ==
    RankingShown =>
        /\ IsPermutationOfSummary(out.ranked, out.summary)
        /\ DOMAIN out.ranked = 1..Len(out.summary)
        /\ \A i, j \in DOMAIN out.ranked :
              i < j => /\ out.ranked[i].nan => out.ranked[j].nan
                       /\ (~out.ranked[i].nan /\ ~out.ranked[j].nan)
                              => RatLe(out.ranked[j].mean, out.ranked[i].mean)

\* Two courses with different means; the ranking reverses the order of the
\* summary.
C22_Witness ==
    /\ RankingShown
    /\ Len(out.summary) = 2
    /\ ~out.summary[1].nan
    /\ ~out.summary[2].nan
    /\ RatLt(out.summary[1].mean, out.summary[2].mean)
    /\ out.ranked = <<out.summary[2], out.summary[1]>>

\* The first course of the summary has no mean and is ranked last.
C22_WitnessUndefined ==
    /\ RankingShown
    /\ Len(out.summary) = 2
    /\ out.summary[1].nan
    /\ ~out.summary[2].nan
    /\ out.ranked = <<out.summary[2], out.summary[1]>>

\* ================================= properties of the top and bottom lists
ListedQuestions(list) == {list[i].Question : i \in DOMAIN list}

\* The questions of scores that are not in list and have a mean.
DefinedOutside(scores, list) ==
    {m \in DOMAIN scores : /\ scores[m].Question \notin ListedQuestions(list)
                           /\ ~scores[m].nan}

\* C23: the highest list holds min(3, n) questions, each with a defined mean
\* that is greater than or equal to the mean of every question outside the
\* list; the lowest list holds min(3, n) questions, each with a defined mean
\* that is less than or equal to the mean of every question outside it.
C23_TopBottomLists ==
    (calc.op = "top_bottom" /\ calc.shown) =>
        LET n == Len(calc.current_cols)
            k == IF n < 3 THEN n ELSE 3
            top == calc.top_questions
            bottom == calc.bottom_questions
            scores == calc.mean_scores
        IN  /\ Len(top) = k
            /\ Cardinality(ListedQuestions(top)) = k
            /\ Len(bottom) = k
            /\ Cardinality(ListedQuestions(bottom)) = k
            /\ \A i \in DOMAIN top :
                  /\ ~top[i].nan
                  /\ \A m \in DefinedOutside(scores, top) :
                        RatLe(scores[m].mean, top[i].mean)
            /\ \A i \in DOMAIN bottom :
                  /\ ~bottom[i].nan
                  /\ \A m \in DefinedOutside(scores, bottom) :
                        RatLe(bottom[i].mean, scores[m].mean)

\* ===================================== properties of the performance message
\* pct >= k for a percentage <<n, d>> with d > 0.
AtLeast(pct, k) == pct[1] >= k * pct[2]

\* C24: the Overall Performance tab shows exactly one message for the
\* cumulative percentage pct: "Excellent Performance!" iff pct >= 90, "Good
\* Performance" iff 80 <= pct < 90, "Needs Improvement" iff 70 <= pct < 80,
\* "Requires Attention" iff pct < 70; the delta pct - 80 is shown iff
\* pct >= 80.
C24_PerformanceMessage ==
    (calc.op = "aggregate" /\ calc.df_long # <<>>) =>
        LET pct == calc.pct
        IN  /\ pct[2] > 0
            /\ calc.message \in {"Excellent Performance!", "Good Performance",
                                 "Needs Improvement", "Requires Attention"}
            /\ calc.message = "Excellent Performance!" <=> AtLeast(pct, 90)
            /\ calc.message = "Good Performance"
                  <=> (AtLeast(pct, 80) /\ ~AtLeast(pct, 90))
            /\ calc.message = "Needs Improvement"
                  <=> (AtLeast(pct, 70) /\ ~AtLeast(pct, 80))
            /\ calc.message = "Requires Attention" <=> ~AtLeast(pct, 70)
            /\ calc.delta.shown <=> AtLeast(pct, 80)
            /\ calc.delta.shown =>
                  (calc.delta.value[1] + 80 * calc.delta.value[2]) * pct[2]
                      = pct[1] * calc.delta.value[2]

\* A course whose percentage is exactly 90: the first message, delta 10.
C24_Witness ==
    /\ calc.op = "aggregate"
    /\ calc.df_long # <<>>
    /\ calc.pct = RatInt(90)
    /\ calc.message = "Excellent Performance!"
    /\ calc.delta = [shown |-> TRUE, value |-> RatInt(10)]

\* A course whose percentage is exactly 80: the second message, delta 0.
C24_WitnessGood ==
    /\ calc.op = "aggregate"
    /\ calc.pct = RatInt(80)
    /\ calc.message = "Good Performance"
    /\ calc.delta = [shown |-> TRUE, value |-> RatInt(0)]

\* A course whose percentage is exactly 70: the third message, no delta.
C24_WitnessNeedsImprovement ==
    /\ calc.op = "aggregate"
    /\ calc.pct = RatInt(70)
    /\ calc.message = "Needs Improvement"
    /\ ~calc.delta.shown

\* A course below 70.
C24_WitnessRequiresAttention ==
    /\ calc.op = "aggregate"
    /\ calc.pct = RatInt(60)
    /\ calc.message = "Requires Attention"
    /\ ~calc.delta.shown

\* ======================================= properties of the performance level
LevelRank(level) ==
    CASE level = "Needs Improvement" -> 0
      [] level = "Satisfactory" -> 1
      [] level = "Good" -> 2
      [] level = "Excellent" -> 3

\* mean >= k / 2 for a mean <<n, d>> with d > 0.
AtLeastHalves(m, k) == 2 * m[1] >= k * m[2]

\* The means 1, 1.25, ..., 5 of a second course.
ReferenceMeans == {Norm(<<k, 4>>) : k \in 4..20}

\* C25: a course gets exactly one performance level from its overall mean:
\* "Excellent" iff mean >= 4.5, "Good" iff 4.0 <= mean < 4.5, "Satisfactory"
\* iff 3.5 <= mean < 4.0, "Needs Improvement" otherwise (an undefined mean
\* included); a course with a higher mean never gets a lower level.
C25_PerformanceLevel ==
    calc.op = "aggregate" =>
        LET om == calc.overall_mean
            level == calc.performance_level
            defined == ~om.nan
        IN  /\ level \in {"Excellent", "Good", "Satisfactory", "Needs Improvement"}
            /\ defined => om.mean[2] > 0
            /\ level = "Excellent" <=> (defined /\ AtLeastHalves(om.mean, 9))
            /\ level = "Good" <=> (/\ defined
                                   /\ AtLeastHalves(om.mean, 8)
                                   /\ ~AtLeastHalves(om.mean, 9))
            /\ level = "Satisfactory" <=> (/\ defined
                                           /\ AtLeastHalves(om.mean, 7)
                                           /\ ~AtLeastHalves(om.mean, 8))
            /\ level = "Needs Improvement"
                  <=> (~defined \/ ~AtLeastHalves(om.mean, 7))
            /\ defined =>
                  \A m \in ReferenceMeans :
                      LET other == performance_level([nan |-> FALSE, mean |-> m])
                      IN  /\ RatLe(om.mean, m) => LevelRank(level) <= LevelRank(other)
                          /\ RatLe(m, om.mean) => LevelRank(other) <= LevelRank(level)

\* Two questions with means 3 and 4: the overall mean is exactly 3.5.
C25_Witness ==
    /\ calc.op = "aggregate"
    /\ Len(calc.current_cols) = 2
    /\ ~calc.overall_mean.nan
    /\ calc.overall_mean.mean = <<7, 2>>
    /\ calc.performance_level = "Satisfactory"

\* Overall means exactly 4.5 and 4.0.
C25_WitnessExcellent ==
    /\ calc.op = "aggregate"
    /\ ~calc.overall_mean.nan
    /\ calc.overall_mean.mean = <<9, 2>>
    /\ calc.performance_level = "Excellent"

C25_WitnessGood ==
    /\ calc.op = "aggregate"
    /\ ~calc.overall_mean.nan
    /\ calc.overall_mean.mean = <<4, 1>>
    /\ calc.performance_level = "Good"

\* A course without any number: the mean is undefined.
C25_WitnessUndefined ==
    /\ calc.op = "aggregate"
    /\ calc.overall_mean.nan
    /\ calc.performance_level = "Needs Improvement"
====
